---------------------------- MODULE Spec2Model ----------------------------
(***************************************************************************)
(* Model of the My Swing admin dashboard:                                  *)
(*   - the image upload API route     (src/pages/api/upload/image.ts)      *)
(*   - the dashboard page's getServerSideProps (src/unnamed/part_000)      *)
(*   - the dashboard page's trend labels       (src/unnamed/part_000)      *)
(*   - the mobile menu of the layout (src/components/layout/AppShell.tsx)  *)
(* Strings the code inspects character by character (file names, storage   *)
(* keys) are sequences of one-character strings.  A nullable value is a    *)
(* sequence of length 0 (null / undefined) or 1 (the value).               *)
(***************************************************************************)
EXTENDS Integers, Sequences, FiniteSets, TLC

VARIABLES
    \* ---- upload route: one handler instance per request id
    reqs,       \* request ids the environment may send
    upc,        \* upc[r]: where handler r is: idle, auth, upload, done
    req,        \* req[r]: the request (method, body) being handled
    hdrs,       \* hdrs[r]: response headers set by the handler
    sent,       \* sent[r]: responses written by the handler, in order
    ops,        \* ops[r]: storage operations performed by handler r, in order
    job,        \* job[r]: locals kept across the upload await (filePath, ...)
    bucket,     \* objects in the storage bucket
    env         \* env[r]: what assertApiAdmin, upload and getPublicUrl did for r

VARIABLES
    \* ---- dashboard page: one run of getServerSideProps
    gpc,        \* where the run is: idle, auth, queries, messages, done
    gin,        \* its inputs: the current date and context.query.period
    ranges,     \* locals: period and the four dates of the two windows
    issued,     \* the queries handed to Promise.all, by position
    backend,    \* what the backend answers to each of them
    pending,    \* positions whose promise has not resolved yet
    results,    \* the array Promise.all builds, by position
    metrics,    \* dashboardMetrics, once computed
    outcome,    \* what the run returned
    reordered   \* history: a promise resolved before one at a lower position

uvars == <<reqs, upc, req, hdrs, sent, ops, job, bucket, env>>

dvars ==
    <<gpc, gin, ranges, issued, backend, pending, results, metrics, outcome, reordered>>

VARIABLES
    \* ---- browser: the AppShell component and the trend labels of Home
    mobileMenuOpen, \* AppShell's state
    asPath,         \* router.asPath
    view,           \* AppShell's last render: what it shows, what its handlers see
    effectDue,      \* the effect on router.asPath is due after the last render
    events,         \* history: the events handled so far
    tmetric,        \* the metric formatTrend was called with
    trend           \* what it returned

cvars == <<mobileMenuOpen, asPath, view, effectDue, events, tmetric, trend>>

vars == <<uvars, dvars, cvars>>

-----------------------------------------------------------------------------
(* Nullable values and generic helpers *)

Null == <<>>

Some(x) == <<x>>

Range(s) == {s[i] : i \in DOMAIN s}

SeqsUpTo(S, n) == UNION {[1..k -> S] : k \in 0..n}

-----------------------------------------------------------------------------
(* Characters *)

LowerLetters ==
    <<"a","b","c","d","e","f","g","h","i","j","k","l","m",
      "n","o","p","q","r","s","t","u","v","w","x","y","z">>

UpperLetters ==
    <<"A","B","C","D","E","F","G","H","I","J","K","L","M",
      "N","O","P","Q","R","S","T","U","V","W","X","Y","Z">>

DigitChars == <<"0","1","2","3","4","5","6","7","8","9">>

\* String.prototype.toLowerCase, one character
ToLowerChar(c) ==
    IF \E i \in DOMAIN UpperLetters : UpperLetters[i] = c
    THEN LowerLetters[CHOOSE i \in DOMAIN UpperLetters : UpperLetters[i] = c]
    ELSE c

ToLowerCase(s) == [i \in 1..Len(s) |-> ToLowerChar(s[i])]

\* decimal digits of a non-negative integer (template literal `${timestamp}`)
RECURSIVE ToDigits(_)
ToDigits(n) ==
    IF n < 10 THEN <<DigitChars[n + 1]>>
    ELSE ToDigits(n \div 10) \o <<DigitChars[(n % 10) + 1]>>

-----------------------------------------------------------------------------
(* Upload route: pure parts of the handler (src/pages/api/upload/image.ts) *)

\* Bounds of the file names the environment sends
MaxStemLen == 1

MaxClock == 2

StemChars == {"a", "Z", "7", "-", ".", "/", "\\", " "}

ExtraStems == { <<"a", "/", "b">>, <<".", ".", "\\", ".", ".", "/">> }

Stems == SeqsUpTo(StemChars, MaxStemLen) \cup ExtraStems

Exts ==
    { <<>>, <<".">>,
      <<".", "j", "p", "g">>, <<".", "J", "P", "G">>,
      <<".", "j", "p", "e", "g">>,
      <<".", "p", "n", "g">>, <<".", "P", "n", "G">>, <<"p", "n", "g">>,
      <<".", "g", "i", "f">>, <<"g", "i", "f">>,
      <<".", "w", "e", "b", "p">>,
      <<".", "s", "v", "g">>,
      <<".", "t", "x", "t">>, <<".", "p", "n">>,
      <<".", "c", "o", "n", "s", "t", "r", "u", "c", "t", "o", "r">> }

\* every file name the environment may put in the body (the empty one included)
FileNames == {s \o e : s \in Stems, e \in Exts}

\* a body field: absent (undefined), a string, or another truthy value
AbsentField == [kind |-> "absent", prefix |-> "", chars |-> <<>>]

OtherField == [kind |-> "other", prefix |-> "", chars |-> <<>>]

StringField(p, cs) == [kind |-> "string", prefix |-> p, chars |-> cs]

\* data-URI prefixes a client may send; the first two match the handler's regex
UriPrefixes ==
    {"data:image/png;base64,", "data:image/gif;base64,", "data:text/plain;base64,", ""}

Payloads == { <<>>, <<"Q", "U", "I", "=">> }

FileValues ==
    {AbsentField, OtherField}
        \cup {StringField(p, d) : p \in UriPrefixes, d \in Payloads}

NameValues == {AbsentField, OtherField} \cup {StringField("", n) : n \in FileNames}

NullBody == [kind |-> "null", file |-> AbsentField, fileName |-> AbsentField]

ObjectBody(f, n) == [kind |-> "object", file |-> f, fileName |-> n]

Bodies == {NullBody} \cup {ObjectBody(f, n) : f \in FileValues, n \in NameValues}

Methods == {"POST", "GET"}

NoRequest == [method |-> "", body |-> NullBody]

\* JavaScript truthiness of a body field
Truthy(v) ==
    CASE v.kind = "absent" -> FALSE
      [] v.kind = "string" -> v.prefix # "" \/ v.chars # <<>>
      [] OTHER -> TRUE

\* line 29: req.method !== 'POST'
MethodRejected_AllowAll(m) == FALSE

MethodRejected(m) == m # "POST"

\* line 38: !file || !fileName
FieldsMissing_And(b) == ~Truthy(b.file) /\ ~Truthy(b.fileName)

FieldsMissing(b) == ~Truthy(b.file) \/ ~Truthy(b.fileName)

\* line 44: file.replace(/^data:image\/\w+;base64,/, '')
ImageUriPrefixes == {"data:image/png;base64,", "data:image/gif;base64,"}

StripDataUri(f) ==
    IF f.prefix \in ImageUriPrefixes \/ f.prefix = ""
    THEN f.chars
    ELSE <<f.prefix>> \o f.chars

\* line 49: fileName.replace(/[^a-zA-Z0-9.-]/g, '_')
KeptChar(c) ==
    c \in Range(LowerLetters) \cup Range(UpperLetters) \cup Range(DigitChars)
            \cup {".", "-"}

SanitizeFileName_KeepSlash(s) ==
    [i \in 1..Len(s) |-> IF KeptChar(s[i]) \/ s[i] = "/" THEN s[i] ELSE "_"]

SanitizeFileName(s) == [i \in 1..Len(s) |-> IF KeptChar(s[i]) THEN s[i] ELSE "_"]

MessagesPrefix == <<"m", "e", "s", "s", "a", "g", "e", "s", "/">>

\* lines 50-51: `messages/${timestamp}-${sanitizedFileName}`
FilePath(timestamp, fileName) ==
    MessagesPrefix \o ToDigits(timestamp) \o <<"-">> \o SanitizeFileName(fileName)

\* line 54: fileName.split('.').pop()?.toLowerCase() || 'jpg'
LastDot(s) ==
    IF \E i \in DOMAIN s : s[i] = "."
    THEN CHOOSE i \in DOMAIN s : s[i] = "." /\ \A j \in DOMAIN s : s[j] = "." => j <= i
    ELSE 0

FileExtension(fileName) ==
    LET popped == ToLowerCase(SubSeq(fileName, LastDot(fileName) + 1, Len(fileName)))
    IN  IF popped = <<>> THEN <<"j", "p", "g">> ELSE popped

\* lines 55-62: the mimeTypes object literal (its own properties)
MimeTypes ==
    { << <<"j", "p", "g">>, "image/jpeg" >>,
      << <<"j", "p", "e", "g">>, "image/jpeg" >>,
      << <<"p", "n", "g">>, "image/png" >>,
      << <<"g", "i", "f">>, "image/gif" >>,
      << <<"w", "e", "b", "p">>, "image/webp" >>,
      << <<"s", "v", "g">>, "image/svg+xml" >> }

\* properties every object literal inherits from Object.prototype whose names
\* are already lower case; their values are truthy and are not strings
InheritedProps ==
    { << <<"c", "o", "n", "s", "t", "r", "u", "c", "t", "o", "r">>, "[Function: Object]" >>,
      << <<"_", "_", "p", "r", "o", "t", "o", "_", "_">>, "[Object: null prototype]" >> }

\* mimeTypes[fileExtension]: own property first, then the prototype chain
PropertyLookup(ext) ==
    IF \E p \in MimeTypes : p[1] = ext
    THEN Some((CHOOSE p \in MimeTypes : p[1] = ext)[2])
    ELSE IF \E p \in InheritedProps : p[1] = ext
         THEN Some((CHOOSE p \in InheritedProps : p[1] = ext)[2])
         ELSE Null

\* line 63: mimeTypes[fileExtension] || 'image/jpeg'
ContentType(fileName) ==
    LET found == PropertyLookup(FileExtension(fileName))
    IN  IF found # Null THEN found[1] ELSE "image/jpeg"

-----------------------------------------------------------------------------
(* Upload route: the handler as a process with two await points            *)
(* (assertApiAdmin, storage upload)                                        *)

AllReqs == {"r1", "r2"}

Timestamps == 1..MaxClock

BucketName == "Images"

\* values a rejected await may throw
TypeErrorValue == [isError |-> TRUE, message |-> "TypeError"]

ThrownValues == {[isError |-> TRUE, message |-> "fetch failed"],
                 [isError |-> FALSE, message |-> ""]}

\* what assertApiAdmin (lib/auth) has written to res when it throws
AuthReplies == {<<>>, <<[status |-> 401, body |-> [error |-> "Non autorise"]]>>}

ErrorResponse(status, message) == [status |-> status, body |-> [error |-> message]]

CatchResponse_NoStatus(e) ==
    [status |-> 200,
     body |-> [error |-> IF e.isError THEN e.message
                         ELSE "Erreur inconnue lors de l'upload"]]

\* lines 93-97: the catch block's response
CatchResponse(e) ==
    ErrorResponse(500, IF e.isError THEN e.message
                       ELSE "Erreur inconnue lors de l'upload")

\* lines 89-92
SuccessResponse(url, path) == [status |-> 200, body |-> [url |-> url, path |-> path]]

\* storage.from(bucket).getPublicUrl(path).data.publicUrl, when there is one
PublicUrl_DefaultBucket(b, path) == [bucket |-> "public", path |-> path]

PublicUrl(b, path) == [bucket |-> b, path |-> path]

UploadOp(path, buffer, contentType) ==
    [op |-> "upload", bucket |-> BucketName, path |-> path, body |-> buffer,
     contentType |-> contentType, upsert |-> FALSE]

GetPublicUrlOp(path) ==
    [op |-> "getPublicUrl", bucket |-> BucketName, path |-> path, body |-> <<>>,
     contentType |-> "", upsert |-> FALSE]

\* the storage service refuses an upload without upsert to a key it holds
Stored_Never(path) == FALSE

Stored(path) == \E o \in bucket : o.path = path

\* the synchronous run of the handler between assertApiAdmin and the upload
SyncOutcome(rq) ==
    IF MethodRejected(rq.method) THEN "405"
    ELSE IF rq.body.kind = "null" THEN "throw"
    ELSE IF FieldsMissing(rq.body) THEN "400"
    ELSE IF rq.body.file.kind # "string" \/ rq.body.fileName.kind # "string" THEN "throw"
    ELSE "upload"

NoOutcome == [auth |-> "none", upload |-> "none", url |-> "none"]

Finish(r, responses) ==
    /\ sent' = [sent EXCEPT ![r] = @ \o responses]
    /\ upc' = [upc EXCEPT ![r] = "done"]

AuthIs(r, a) == env' = [env EXCEPT ![r].auth = a]

UploadIs(r, u, g) == env' = [env EXCEPT ![r].upload = u, ![r].url = g]

\* a request arrives; the handler awaits assertApiAdmin (line 24)
ReceiveFrom(r, methods, bodies) ==
    /\ r \in reqs
    /\ upc[r] = "idle"
    /\ \E m \in methods, b \in bodies :
            req' = [req EXCEPT ![r] = [method |-> m, body |-> b]]
    /\ upc' = [upc EXCEPT ![r] = "auth"]
    /\ UNCHANGED <<reqs, hdrs, sent, ops, job, bucket, env, dvars, cvars>>

Receive(r) == ReceiveFrom(r, Methods, Bodies)

\* lines 25-27: assertApiAdmin throws, the handler returns
AuthReject(r) ==
    /\ upc[r] = "auth"
    /\ \E reply \in AuthReplies : Finish(r, reply)
    /\ AuthIs(r, "rejected")
    /\ UNCHANGED <<reqs, req, hdrs, ops, job, bucket, dvars, cvars>>

\* lines 29-33
MethodNotAllowed(r) ==
    /\ upc[r] = "auth"
    /\ SyncOutcome(req[r]) = "405"
    /\ hdrs' = [hdrs EXCEPT ![r] = @ \cup {<<"Allow", "POST">>}]
    /\ Finish(r, <<ErrorResponse(405, "Methode non autorisee")>>)
    /\ AuthIs(r, "ok")
    /\ UNCHANGED <<reqs, req, ops, job, bucket, dvars, cvars>>

\* lines 38-41
MissingFields(r) ==
    /\ upc[r] = "auth"
    /\ SyncOutcome(req[r]) = "400"
    /\ Finish(r, <<ErrorResponse(400, "Fichier et nom de fichier requis")>>)
    /\ AuthIs(r, "ok")
    /\ UNCHANGED <<reqs, req, hdrs, ops, job, bucket, dvars, cvars>>

\* line 36 on a null body, lines 44/49 on a non-string field: a TypeError
\* lands in the catch block (lines 93-97)
BodyThrows(r) ==
    /\ upc[r] = "auth"
    /\ SyncOutcome(req[r]) = "throw"
    /\ Finish(r, <<CatchResponse(TypeErrorValue)>>)
    /\ AuthIs(r, "ok")
    /\ UNCHANGED <<reqs, req, hdrs, ops, job, bucket, dvars, cvars>>

\* lines 43-71: the upload is issued with the key and content type computed
\* from the request; the handler awaits it
StartUpload(r) ==
    /\ upc[r] = "auth"
    /\ SyncOutcome(req[r]) = "upload"
    /\ \E timestamp \in Timestamps :
         LET fileName == req[r].body.fileName.chars
             filePath == FilePath(timestamp, fileName)
             buffer == StripDataUri(req[r].body.file)
         IN  /\ ops' = [ops EXCEPT ![r] =
                          Append(@, UploadOp(filePath, buffer, ContentType(fileName)))]
             /\ job' = [job EXCEPT ![r] =
                          Some([timestamp |-> timestamp, filePath |-> filePath])]
    /\ upc' = [upc EXCEPT ![r] = "upload"]
    /\ AuthIs(r, "ok")
    /\ UNCHANGED <<reqs, req, hdrs, sent, bucket, dvars, cvars>>

UploadMessages == {"The resource already exists", "Bucket not found"}

\* lines 73-77: the upload resolves with an error (always so when the key is
\* taken, upsert being false)
UploadError(r) ==
    /\ upc[r] = "upload"
    /\ \E message \in UploadMessages : Finish(r, <<ErrorResponse(500, message)>>)
    /\ UploadIs(r, "error", "none")
    /\ UNCHANGED <<reqs, req, hdrs, ops, job, bucket, dvars, cvars>>

\* the upload rejects: lines 93-97
UploadThrows(r) ==
    /\ upc[r] = "upload"
    /\ \E e \in ThrownValues : Finish(r, <<CatchResponse(e)>>)
    /\ UploadIs(r, "threw", "none")
    /\ UNCHANGED <<reqs, req, hdrs, ops, job, bucket, dvars, cvars>>

StoreObject(r) ==
    LET up == ops[r][Len(ops[r])]
    IN  bucket' = bucket \cup
            {[path |-> up.path, body |-> up.body, contentType |-> up.contentType,
              owner |-> r]}

\* lines 79-92: the upload succeeded, a public URL is returned
UploadOk(r) ==
    /\ upc[r] = "upload"
    /\ ~Stored(job[r][1].filePath)
    /\ StoreObject(r)
    /\ ops' = [ops EXCEPT ![r] = Append(@, GetPublicUrlOp(job[r][1].filePath))]
    /\ Finish(r, <<SuccessResponse(PublicUrl(BucketName, job[r][1].filePath),
                                   job[r][1].filePath)>>)
    /\ UploadIs(r, "ok", "ok")
    /\ UNCHANGED <<reqs, req, hdrs, job, dvars, cvars>>

\* lines 84-87: the upload succeeded, getPublicUrl gives no URL
UploadOkNoUrl(r) ==
    /\ upc[r] = "upload"
    /\ ~Stored(job[r][1].filePath)
    /\ StoreObject(r)
    /\ ops' = [ops EXCEPT ![r] = Append(@, GetPublicUrlOp(job[r][1].filePath))]
    /\ Finish(r, <<ErrorResponse(500, "Erreur lors de la recuperation de l'URL")>>)
    /\ UploadIs(r, "ok", "missing")
    /\ UNCHANGED <<reqs, req, hdrs, job, dvars, cvars>>

\* the upload succeeded, getPublicUrl throws: lines 93-97
UploadOkUrlThrows(r) ==
    /\ upc[r] = "upload"
    /\ ~Stored(job[r][1].filePath)
    /\ StoreObject(r)
    /\ ops' = [ops EXCEPT ![r] = Append(@, GetPublicUrlOp(job[r][1].filePath))]
    /\ \E e \in ThrownValues : Finish(r, <<CatchResponse(e)>>)
    /\ UploadIs(r, "ok", "threw")
    /\ UNCHANGED <<reqs, req, hdrs, job, dvars, cvars>>

UploadInit ==
    /\ reqs = {"r1"}
    /\ upc = [r \in AllReqs |-> "idle"]
    /\ req = [r \in AllReqs |-> NoRequest]
    /\ hdrs = [r \in AllReqs |-> {}]
    /\ sent = [r \in AllReqs |-> <<>>]
    /\ ops = [r \in AllReqs |-> <<>>]
    /\ job = [r \in AllReqs |-> Null]
    /\ bucket = {}
    /\ env = [r \in AllReqs |-> NoOutcome]

UploadNext ==
    \E r \in AllReqs :
        \/ Receive(r)
        \/ AuthReject(r)
        \/ MethodNotAllowed(r)
        \/ MissingFields(r)
        \/ BodyThrows(r)
        \/ StartUpload(r)
        \/ UploadError(r)
        \/ UploadThrows(r)
        \/ UploadOk(r)
        \/ UploadOkNoUrl(r)
        \/ UploadOkUrlThrows(r)

\* two requests in flight together, their names sanitizing to one key or not
ConcurrentNames ==
    { <<"/">>, <<"\\">>, <<"a">> } \X { <<".", "p", "n", "g">> }

ConcurrentBodies ==
    { ObjectBody(StringField("data:image/png;base64,", d), StringField("", n[1] \o n[2])) :
        d \in Payloads \ {<<>>}, n \in ConcurrentNames }
        \cup { ObjectBody(StringField("", <<"Q", "g", "=", "=">>),
                          StringField("", <<"/", ".", "p", "n", "g">>)) }

TwoUploadsInit ==
    /\ reqs = AllReqs
    /\ upc = [r \in AllReqs |-> "idle"]
    /\ req = [r \in AllReqs |-> NoRequest]
    /\ hdrs = [r \in AllReqs |-> {}]
    /\ sent = [r \in AllReqs |-> <<>>]
    /\ ops = [r \in AllReqs |-> <<>>]
    /\ job = [r \in AllReqs |-> Null]
    /\ bucket = {}
    /\ env = [r \in AllReqs |-> NoOutcome]

ConcurrentNext ==
    \E r \in AllReqs :
        \/ ReceiveFrom(r, {"POST"}, ConcurrentBodies)
        \/ AuthReject(r)
        \/ StartUpload(r)
        \/ UploadError(r)
        \/ UploadThrows(r)
        \/ UploadOk(r)
        \/ UploadOkNoUrl(r)
        \/ UploadOkUrlThrows(r)

-----------------------------------------------------------------------------
(* Calendar days (date-fns works on local calendar days; the time of day   *)
(* is dropped by startOfDay / endOfDay)                                    *)

\* number of years the current date ranges over
NumYears == 2

CalendarStart == [y |-> 2023, m |-> 1, d |-> 1]

NowYears == (CalendarStart.y + 1)..(CalendarStart.y + NumYears)

IsLeapYear(y) == (y % 4 = 0 /\ y % 100 # 0) \/ y % 400 = 0

DaysInMonth(y, m) ==
    IF m = 2 THEN (IF IsLeapYear(y) THEN 29 ELSE 28)
    ELSE IF m \in {4, 6, 9, 11} THEN 30 ELSE 31

Dates(years) ==
    UNION { UNION { {[y |-> y, m |-> m, d |-> d] : d \in 1..DaysInMonth(y, m)}
                    : m \in 1..12 } : y \in years }

RECURSIVE DaysBeforeYear(_)
DaysBeforeYear(y) ==
    IF y <= CalendarStart.y THEN 0
    ELSE DaysBeforeYear(y - 1) + (IF IsLeapYear(y - 1) THEN 366 ELSE 365)

RECURSIVE DaysBeforeMonth(_, _)
DaysBeforeMonth(y, m) ==
    IF m = 1 THEN 0 ELSE DaysBeforeMonth(y, m - 1) + DaysInMonth(y, m - 1)

\* days from CalendarStart to the date
DayNum(date) == DaysBeforeYear(date.y) + DaysBeforeMonth(date.y, date.m) + date.d - 1

DateOf(n) ==
    LET y == CHOOSE yy \in CalendarStart.y..(CalendarStart.y + NumYears) :
                 DaysBeforeYear(yy) <= n /\ n < DaysBeforeYear(yy + 1)
        r == n - DaysBeforeYear(y)
        m == CHOOSE mm \in 1..12 :
                 DaysBeforeMonth(y, mm) <= r /\ r < DaysBeforeMonth(y, mm) + DaysInMonth(y, mm)
    IN  [y |-> y, m |-> m, d |-> r - DaysBeforeMonth(y, m) + 1]

\* date-fns
SubDays(date, n) == DateOf(DayNum(date) - n)

StartOfMonth(date) == [date EXCEPT !.d = 1]

EndOfMonth(date) == [date EXCEPT !.d = DaysInMonth(date.y, date.m)]

SubMonths(date, k) ==
    LET idx == date.y * 12 + (date.m - 1) - k
        y == idx \div 12
        m == (idx % 12) + 1
    IN  [y |-> y, m |-> m,
         d |-> IF date.d < DaysInMonth(y, m) THEN date.d ELSE DaysInMonth(y, m)]

EachDayOfInterval(start, end) ==
    LET first == DayNum(start)
        last == DayNum(end)
    IN  [k \in 1..(last - first + 1) |-> DateOf(first + k - 1)]

WeekdaysFr == <<"dim.", "lun.", "mar.", "mer.", "jeu.", "ven.", "sam.">>

\* format(day, 'EEE dd', { locale: fr }); CalendarStart is a Sunday
FormatDay(day) == <<WeekdaysFr[(DayNum(day) % 7) + 1], day.d \div 10, day.d % 10>>

-----------------------------------------------------------------------------
(* Dashboard page: date windows (getServerSideProps, lines 354-394) *)

\* context.query.period: undefined, an array of strings, or a string
AbsentQuery == [kind |-> "absent", value |-> ""]

ArrayQuery == [kind |-> "array", value |-> "30d"]

StringQuery(v) == [kind |-> "string", value |-> v]

PeriodQueries ==
    {AbsentQuery, ArrayQuery}
        \cup {StringQuery(v) : v \in {"7d", "30d", "month", "last_month", "7D", ""}}

\* line 357
PeriodOf(q) == IF q.kind = "string" THEN q.value ELSE "7d"

DateRange(s, e, ps, pe) ==
    [startDate |-> s, endDate |-> e, previousStartDate |-> ps, previousEndDate |-> pe]

\* lines 366-370
Range30d_OffByOne(now) ==
    DateRange(SubDays(now, 30), now, SubDays(SubDays(now, 30), 30), SubDays(now, 30))

Range30d(now) ==
    DateRange(SubDays(now, 29), now, SubDays(SubDays(now, 29), 30), SubDays(now, 30))

\* lines 371-376
RangeMonth(now) ==
    DateRange(StartOfMonth(now), now,
              StartOfMonth(SubMonths(now, 1)), EndOfMonth(SubMonths(now, 1)))

\* lines 377-382
RangeLastMonth_PreviousClamped(now) ==
    DateRange(StartOfMonth(SubMonths(now, 1)), EndOfMonth(SubMonths(now, 1)),
              StartOfMonth(SubMonths(now, 2)), SubMonths(EndOfMonth(SubMonths(now, 1)), 1))

RangeLastMonth(now) ==
    DateRange(StartOfMonth(SubMonths(now, 1)), EndOfMonth(SubMonths(now, 1)),
              StartOfMonth(SubMonths(now, 2)), EndOfMonth(SubMonths(now, 2)))

\* lines 383-388
Range7d(now) ==
    DateRange(SubDays(now, 6), now, SubDays(SubDays(now, 6), 7), SubDays(now, 7))

\* lines 365-389: the switch
DateRanges(period, now) ==
    CASE period = "30d" -> Range30d(now)
      [] period = "month" -> RangeMonth(now)
      [] period = "last_month" -> RangeLastMonth(now)
      [] OTHER -> Range7d(now)

NoRanges == DateRange(CalendarStart, CalendarStart, CalendarStart, CalendarStart)

-----------------------------------------------------------------------------
(* Dashboard page: the thirteen queries and the metrics (lines 396-615) *)

\* largest row count the backend reports
MaxCount == 3

QueryCount == 13

Positions == 1..QueryCount

CountPositions == 1..10

ChartPositions == 11..13

Query(table, select, filter, gte, lt) ==
    [table |-> table, select |-> select, filter |-> filter, gte |-> gte, lt |-> lt]

\* lines 410-466: the array handed to Promise.all; a date range is
\* [startOfDay(gte), endOfDay(lt))
Queries(rg) ==
    LET cur(t, sel) == Query(t, sel, "range", Some(rg.startDate), Some(rg.endDate))
        prev(t, sel) ==
            Query(t, sel, "range", Some(rg.previousStartDate), Some(rg.previousEndDate))
    IN  << Query("profiles", "count", "none", Null, Null),
           cur("profiles", "count"),
           prev("profiles", "count"),
           cur("analyses", "count"),
           prev("analyses", "count"),
           Query("consent", "count", "none", Null, Null),
           Query("consent", "count", "marketing", Null, Null),
           Query("consent", "count", "improvement", Null, Null),
           cur("waitlist", "count"),
           prev("waitlist", "count"),
           cur("profiles", "created_at"),
           cur("analyses", "created_at"),
           cur("waitlist", "created_at") >>

\* a query's response: { error, count, data }
ErrorReply == [error |-> TRUE, count |-> Null, data |-> Null]

CountReply(n) == [error |-> FALSE, count |-> Some(n), data |-> Null]

NullCountReply == [error |-> FALSE, count |-> Null, data |-> Null]

RowsReply(rows) == [error |-> FALSE, count |-> Null, data |-> Some(rows)]

\* lines 468-477
GetCountOrZero_ErrorSentinel(response) ==
    IF response.error THEN 0 - 1
    ELSE IF response.count = Null THEN 0 ELSE response.count[1]

GetCountOrZero(response) ==
    IF response.error THEN 0
    ELSE IF response.count = Null THEN 0 ELSE response.count[1]

\* the quotient (delta / previous) * 100, kept exact as a fraction
Fraction(num, den) == [num |-> num, den |-> den]

\* lines 516-519, 522-525, 528-531, 534-537
DeltaPercent_NoGuard(delta, previous) == Some(Fraction(delta * 100, previous))

DeltaPercent(delta, previous) ==
    IF previous > 0 THEN Some(Fraction(delta * 100, previous)) ELSE Null

MetricData(current, previous, delta, deltaPercentage) ==
    [current |-> current, previous |-> Some(previous), delta |-> delta,
     deltaPercentage |-> deltaPercentage]

\* lines 539-542
Rate_NoGuard(optedIn, total) == Fraction(optedIn * 100, total)

Rate(optedIn, total) ==
    IF total > 0 THEN Fraction(optedIn * 100, total) ELSE Fraction(0, 1)

RateMetricData(optedIn, total) ==
    [optedIn |-> optedIn, total |-> total, rate |-> Rate(optedIn, total)]

\* lines 582-614: one entry per day of the interval, counting the rows of
\* that day (a row is the local calendar day of its created_at)
DailySeries_ExclusiveEnd(response, rg) ==
    LET rows == IF response.data = Null THEN <<>> ELSE response.data[1]
        days == EachDayOfInterval(rg.startDate, rg.endDate)
    IN  [k \in 1..(Len(days) - 1) |->
            [name |-> FormatDay(days[k]),
             value |-> Cardinality({j \in DOMAIN rows : rows[j] = days[k]})]]

DailySeries(response, rg) ==
    LET rows == IF response.data = Null THEN <<>> ELSE response.data[1]
        days == EachDayOfInterval(rg.startDate, rg.endDate)
    IN  [k \in DOMAIN days |->
            [name |-> FormatDay(days[k]),
             value |-> Cardinality({j \in DOMAIN rows : rows[j] = days[k]})]]

Max0(n) == IF n > 0 THEN n ELSE 0

\* lines 479-615
DashboardMetrics(res, rg) ==
    LET totalUsersCount == GetCountOrZero(res[1])
        periodUsersCount == GetCountOrZero(res[2])
        previousPeriodUsersCount == GetCountOrZero(res[3])
        periodAnalysesCount == GetCountOrZero(res[4])
        previousPeriodAnalysesCount == GetCountOrZero(res[5])
        consentTotalCount == GetCountOrZero(res[6])
        marketingOptInCount == GetCountOrZero(res[7])
        improvementOptInCount == GetCountOrZero(res[8])
        waitlistPeriodCount == GetCountOrZero(res[9])
        waitlistPreviousPeriodCount == GetCountOrZero(res[10])
        previousTotalUsers == Max0(totalUsersCount - periodUsersCount)
        totalUsersDelta == totalUsersCount - previousTotalUsers
        signupsDelta == periodUsersCount - previousPeriodUsersCount
        analysesDelta == periodAnalysesCount - previousPeriodAnalysesCount
        waitlistDelta == waitlistPeriodCount - waitlistPreviousPeriodCount
    IN  [ totalUsers |->
            MetricData(totalUsersCount, previousTotalUsers, totalUsersDelta,
                       DeltaPercent(totalUsersDelta, previousTotalUsers)),
          weeklySignups |->
            MetricData(periodUsersCount, previousPeriodUsersCount, signupsDelta,
                       DeltaPercent(signupsDelta, previousPeriodUsersCount)),
          analyses |->
            MetricData(periodAnalysesCount, previousPeriodAnalysesCount, analysesDelta,
                       DeltaPercent(analysesDelta, previousPeriodAnalysesCount)),
          waitlist |->
            MetricData(waitlistPeriodCount, waitlistPreviousPeriodCount, waitlistDelta,
                       DeltaPercent(waitlistDelta, waitlistPreviousPeriodCount)),
          consent |->
            [marketing |-> RateMetricData(marketingOptInCount, consentTotalCount),
             improvement |-> RateMetricData(improvementOptInCount, consentTotalCount)],
          userGrowthData |-> DailySeries(res[11], rg),
          analysisActivityData |-> DailySeries(res[12], rg),
          waitlistGrowthData |-> DailySeries(res[13], rg) ]

\* Promise.all puts each resolved value at its promise's position
Settle_InCompletionOrder(array, i, response) ==
    LET free == CHOOSE k \in DOMAIN array :
                    array[k] = Null /\ \A j \in DOMAIN array : array[j] = Null => k <= j
    IN  [array EXCEPT ![free] = Some(response)]

Settle(array, i, response) == [array EXCEPT ![i] = Some(response)]

RECURSIVE SettleAll(_, _, _)
SettleAll(array, answers, i) ==
    IF i > Len(answers) THEN array
    ELSE SettleAll(Settle(array, i, answers[i]), answers, i + 1)

Unwrap(array) == [k \in DOMAIN array |-> array[k][1]]

-----------------------------------------------------------------------------
(* Dashboard page: in-app messages (lines 617-660) *)

Message(title, active, start, targets, updated) ==
    [title |-> title, is_active |-> active, start_date |-> start,
     target_user_ids |-> targets, updated_at |-> updated, created_at |-> "t0"]

MessageLists ==
    { <<>>,
      << Message("Promo", TRUE, Some("future"), Some(<<"u1">>), Some("t2")),
         Message("Info", FALSE, Null, Null, Null) >>,
      << Message("Old", TRUE, Some("past"), Some(<<>>), Null) >> }

\* lines 622-630
BaseStats_LastKnown ==
    [total |-> 0, active |-> 0, targeted |-> 0, upcoming |-> 0,
     lastMessageTitle |-> Some("Promo"), lastMessageUpdatedAt |-> Some("t2")]

BaseStats ==
    [total |-> 0, active |-> 0, targeted |-> 0, upcoming |-> 0,
     lastMessageTitle |-> Null, lastMessageUpdatedAt |-> Null]

\* lines 643-660; a start_date is "future" when it is after nowForMessages
MessageStats(messages) ==
    LET isActive(m) == m.is_active
        isTargeted(m) == m.target_user_ids # Null /\ Len(m.target_user_ids[1]) > 0
        isUpcoming(m) == m.start_date # Null /\ m.start_date[1] = "future"
    IN  [total |-> Len(messages),
         active |-> Cardinality({k \in DOMAIN messages : isActive(messages[k])}),
         targeted |-> Cardinality({k \in DOMAIN messages : isTargeted(messages[k])}),
         upcoming |-> Cardinality({k \in DOMAIN messages : isUpcoming(messages[k])}),
         lastMessageTitle |-> IF messages = <<>> THEN Null ELSE Some(messages[1].title),
         lastMessageUpdatedAt |->
            IF messages = <<>> THEN Null
            ELSE IF messages[1].updated_at # Null THEN messages[1].updated_at
            ELSE Some(messages[1].created_at)]

\* lines 634-640 and 662-669
Props(stats, dashboardMetrics, selectedPeriod) ==
    [kind |-> "props", messageStats |-> Some(stats),
     dashboardMetrics |-> Some(dashboardMetrics), selectedPeriod |-> selectedPeriod]

\* line 348: what requireAdminSession returns when there is no admin session
Redirect ==
    [kind |-> "redirect", messageStats |-> Null, dashboardMetrics |-> Null,
     selectedPeriod |-> Null]

-----------------------------------------------------------------------------
(* What the backend may answer *)

\* answers to the three chart queries
ChartAnswers(rg) ==
    { << RowsReply(<<rg.endDate, rg.startDate, rg.endDate>>), RowsReply(<<>>), ErrorReply >>,
      << ErrorReply, RowsReply(<<rg.startDate>>), NullCountReply >> }

\* every count query answers; the counts take every level up to MaxCount
LevelAnswers(rg) ==
    { << CountReply(a), CountReply(b), CountReply(c), CountReply(c), CountReply(b),
         CountReply(a), CountReply(b), CountReply(c), CountReply(a), CountReply(b) >> \o ch
      : a \in 0..MaxCount, b \in 0..MaxCount, c \in 0..MaxCount, ch \in ChartAnswers(rg) }

\* any subset of the count queries fails, each with an error or a null count
FailingAnswers(rg) ==
    { [k \in CountPositions |->
          IF k \in failing THEN how[k % 2] ELSE CountReply(1 + (k % MaxCount))]
        \o << ErrorReply, RowsReply(<<>>), RowsReply(<<rg.endDate>>) >>
      : failing \in SUBSET CountPositions,
        how \in [{0, 1} -> {ErrorReply, NullCountReply}] }

CountAnswers(rg) == LevelAnswers(rg) \cup FailingAnswers(rg)

\* a few fixed answer vectors
FewAnswers(rg) ==
    { [k \in CountPositions |-> CountReply(k)] \o ch : ch \in ChartAnswers(rg) }
        \cup { [k \in CountPositions |-> IF k % 2 = 0 THEN ErrorReply ELSE CountReply(k)]
                   \o ch : ch \in ChartAnswers(rg) }

OneAnswer(rg) ==
    { [k \in CountPositions |-> CountReply(k)]
        \o << RowsReply(<<rg.startDate, rg.endDate>>), RowsReply(<<>>), ErrorReply >> }

SomeDay == [y |-> CalendarStart.y + 1, m |-> 3, d |-> 15]

\* most rows a chart query returns
MaxRows == 3

\* lines 451-465: .gte('created_at', startOfPeriod) .lt('created_at', endOfPeriod)
\* keeps the rows created from the start day through the end day
Matches(query, day) ==
    /\ query.gte # Null => DayNum(query.gte[1]) <= DayNum(day)
    /\ query.lt # Null => DayNum(day) <= DayNum(query.lt[1])

\* days on which the rows of the table were created, around the window
RowDays(rg) ==
    LET first == DayNum(rg.startDate)
        last == DayNum(rg.endDate)
    IN  { DateOf(n) : n \in {first - 1, first, (first + last) \div 2, last, last + 1} }

\* what a chart query may answer: an error, null data, or up to MaxRows of
\* the rows that match its filter, in any order
RowReplies(query, rg) ==
    {ErrorReply, NullCountReply}
        \cup { RowsReply(rows) :
                 rows \in SeqsUpTo({d \in RowDays(rg) : Matches(query, d)}, MaxRows) }

RowAnswers(rg) ==
    { [k \in CountPositions |-> CountReply(k % (MaxCount + 1))] \o <<a>> \o bc :
        a \in RowReplies(Queries(rg)[11], rg),
        bc \in { <<RowsReply(<<>>), NullCountReply>>,
                 <<ErrorReply, RowsReply(<<rg.endDate, rg.startDate>>)>> } }

\* the answer vectors a specification lets the backend give
Answers(kind, rg) ==
    CASE kind = "one" -> OneAnswer(rg)
      [] kind = "counts" -> CountAnswers(rg)
      [] kind = "charts" -> RowAnswers(rg)
      [] OTHER -> FewAnswers(rg)

-----------------------------------------------------------------------------
(* Dashboard page: getServerSideProps as a process.  Its await points are  *)
(* requireAdminSession, Promise.all and the in-app-messages query.         *)

NoInput == [now |-> CalendarStart, query |-> AbsentQuery]

DashInit ==
    /\ gpc = "idle"
    /\ gin = NoInput
    /\ ranges = Null
    /\ issued = <<>>
    /\ backend = <<>>
    /\ pending = {}
    /\ results = <<>>
    /\ metrics = Null
    /\ outcome = Null
    /\ reordered = FALSE

\* a page request arrives: `now` is read at line 354, the query at line 357
GsspRequest(nows, queries) ==
    /\ gpc = "idle"
    /\ \E now \in nows, q \in queries : gin' = [now |-> now, query |-> q]
    /\ gpc' = "auth"
    /\ UNCHANGED <<ranges, issued, backend, pending, results, metrics, outcome, reordered, uvars, cvars>>

\* lines 346-349: no admin session, the redirect is returned
GsspRedirect ==
    /\ gpc = "auth"
    /\ outcome' = Some(Redirect)
    /\ gpc' = "done"
    /\ UNCHANGED <<gin, ranges, issued, backend, pending, results, metrics, reordered, uvars, cvars>>

\* lines 350-466: the windows are computed and the thirteen queries issued
\* together; Answers(kind, rg) is what the backend may answer to them
GsspIssueQueries(kind) ==
    /\ gpc = "auth"
    /\ LET period == PeriodOf(gin.query)
           rg == DateRanges(period, gin.now)
       IN  /\ ranges' = Some([period |-> period, dates |-> rg])
           /\ issued' = Queries(rg)
           /\ \E answers \in Answers(kind, rg) : backend' = answers
    /\ pending' = Positions
    /\ results' = [k \in Positions |-> Null]
    /\ gpc' = "queries"
    /\ UNCHANGED <<gin, metrics, outcome, reordered, uvars, cvars>>

\* one of the promises resolves
QueryCompletes(i) ==
    /\ gpc = "queries"
    /\ i \in pending
    /\ results' = Settle(results, i, backend[i])
    /\ pending' = pending \ {i}
    /\ reordered' = (reordered \/ \E j \in pending : j < i)
    /\ UNCHANGED <<gpc, gin, ranges, issued, backend, metrics, outcome, uvars, cvars>>

\* all of the promises resolve, one after the other, with nothing in between
QueriesComplete ==
    /\ gpc = "queries"
    /\ pending = Positions
    /\ results' = SettleAll(results, backend, 1)
    /\ pending' = {}
    /\ UNCHANGED <<gpc, gin, ranges, issued, backend, metrics, outcome, reordered, uvars, cvars>>

\* Promise.all resolves when every promise has
AllSettled == pending = {}

\* lines 466-620: Promise.all has resolved; the metrics are computed and the
\* in-app-messages query is awaited
GsspMetrics ==
    /\ gpc = "queries"
    /\ AllSettled
    /\ metrics' = Some(DashboardMetrics(Unwrap(results), ranges[1].dates))
    /\ gpc' = "messages"
    /\ UNCHANGED <<gin, ranges, issued, backend, pending, results, outcome, reordered, uvars, cvars>>

\* lines 632-641: the messages query failed
MessagesError ==
    /\ gpc = "messages"
    /\ outcome' = Some(Props(BaseStats, metrics[1], Null))
    /\ gpc' = "done"
    /\ UNCHANGED <<gin, ranges, issued, backend, pending, results, metrics, reordered, uvars, cvars>>

\* lines 643-669: the messages query answered
MessagesOk(lists) ==
    /\ gpc = "messages"
    /\ \E messages \in lists :
          outcome' = Some(Props(MessageStats(messages), metrics[1],
                                Some(ranges[1].period)))
    /\ gpc' = "done"
    /\ UNCHANGED <<gin, ranges, issued, backend, pending, results, metrics, reordered, uvars, cvars>>

-----------------------------------------------------------------------------
(* AppShell (src/components/layout/AppShell.tsx): the mobile menu.  React  *)
(* runs a click handler and the render it causes as one step, and runs a   *)
(* pending effect before it handles the next click.                        *)

\* most events handled in one session
MaxEvents == 4

Paths == {"/", "/messages", "/?period=30d"}

\* lines 79-173: what a render with this state and path produces; `open` is
\* the value its click handlers close over, `deps` the effect's dependencies
RenderShell_OverlayAlways(open, path) ==
    [open |-> open, sidebarOpen |-> open, overlay |-> TRUE, deps |-> path]

RenderShell(open, path) ==
    [open |-> open, sidebarOpen |-> open, overlay |-> open, deps |-> path]

Event(kind) == [kind |-> kind, openBefore |-> mobileMenuOpen]

\* a handler called setMobileMenuOpen(open): the state changes and the
\* component renders again
SetMobileMenuOpen(open, kind) ==
    /\ mobileMenuOpen' = open
    /\ view' = RenderShell(open, asPath)
    /\ events' = Append(events, Event(kind))
    /\ UNCHANGED <<asPath, effectDue>>

CanClick == ~effectDue /\ Len(events) < MaxEvents

\* lines 112-118: setMobileMenuOpen(!mobileMenuOpen), with the rendered value
ToggleClick ==
    /\ CanClick
    /\ SetMobileMenuOpen(~view.open, "toggle")
    /\ UNCHANGED <<tmetric, trend, uvars, dvars>>

\* lines 88-94
CloseClick ==
    /\ CanClick
    /\ SetMobileMenuOpen(FALSE, "close")
    /\ UNCHANGED <<tmetric, trend, uvars, dvars>>

\* lines 162-171: the overlay can be clicked when it is rendered
OverlayClick ==
    /\ CanClick
    /\ view.overlay
    /\ SetMobileMenuOpen(FALSE, "overlay")
    /\ UNCHANGED <<tmetric, trend, uvars, dvars>>

\* the router moves to another path: AppShell renders with the new asPath,
\* and the effect of lines 51-53 is due because its dependency changed
RouteChange ==
    /\ CanClick
    /\ \E path \in Paths \ {asPath} :
          /\ asPath' = path
          /\ view' = RenderShell(mobileMenuOpen, path)
          /\ effectDue' = (view.deps # path)
    /\ events' = Append(events, Event("route"))
    /\ UNCHANGED <<mobileMenuOpen, tmetric, trend, uvars, dvars>>

\* lines 51-53: the effect runs, on mount and after a change of router.asPath
RunEffect ==
    /\ effectDue
    /\ mobileMenuOpen' = FALSE
    /\ view' = RenderShell(FALSE, asPath)
    /\ effectDue' = FALSE
    /\ UNCHANGED <<asPath, events, tmetric, trend, uvars, dvars>>

\* line 49 and the first render
ShellInit ==
    /\ mobileMenuOpen = FALSE
    /\ asPath = "/"
    /\ view = RenderShell(FALSE, "/")
    /\ effectDue = TRUE
    /\ events = <<>>

-----------------------------------------------------------------------------
(* Home (src/unnamed/part_000): the trend label of a metric card *)

Abs(n) == IF n < 0 THEN 0 - n ELSE n

\* Number.isFinite on a quotient: n/0 is an infinity or NaN
IsFinite(f) == f.den # 0

\* percentFormatter (lines 82-85): fr-FR, exactly one fraction digit, half
\* rounded away from zero; the argument is not negative
FormatPercent(f) ==
    LET num == Abs(f.num)
        den == Abs(f.den)
        tenths == (2 * 10 * num + den) \div (2 * den)
    IN  ToDigits(tenths \div 10) \o <<",", DigitChars[(tenths % 10) + 1]>>

\* numberFormatter (line 81) on a natural number below 1000 (no grouping)
FormatNumber(n) == ToDigits(n)

ComparisonLabel == "vs periode prec."

SignPrefix(delta) == IF delta > 0 THEN <<"+">> ELSE IF delta < 0 THEN <<"-">> ELSE <<>>

FormatTrend_PercentSign(metric, comparisonLabel) ==
    IF metric.previous = Null
    THEN [text |-> <<"--", " ", comparisonLabel>>, variant |-> "neutral"]
    ELSE LET variant == IF metric.delta = 0 THEN "neutral"
                        ELSE IF metric.delta > 0 THEN "positive" ELSE "negative"
             dp == metric.deltaPercentage
         IN  IF dp # Null /\ IsFinite(dp[1])
             THEN [text |-> SignPrefix(dp[1].num * dp[1].den) \o FormatPercent(dp[1])
                              \o <<" %", " ", comparisonLabel>>,
                   variant |-> variant]
             ELSE [text |-> SignPrefix(metric.delta) \o FormatNumber(Abs(metric.delta))
                              \o <<" ", comparisonLabel>>,
                   variant |-> variant]

\* lines 87-112; the text is kept as its pieces, the long dash as "--"
FormatTrend(metric, comparisonLabel) ==
    IF metric.previous = Null
    THEN [text |-> <<"--", " ", comparisonLabel>>, variant |-> "neutral"]
    ELSE LET variant == IF metric.delta = 0 THEN "neutral"
                        ELSE IF metric.delta > 0 THEN "positive" ELSE "negative"
             dp == metric.deltaPercentage
         IN  IF dp # Null /\ IsFinite(dp[1])
             THEN [text |-> SignPrefix(metric.delta) \o FormatPercent(dp[1])
                              \o <<" %", " ", comparisonLabel>>,
                   variant |-> variant]
             ELSE [text |-> SignPrefix(metric.delta) \o FormatNumber(Abs(metric.delta))
                              \o <<" ", comparisonLabel>>,
                   variant |-> variant]

\* lines 74-79
PERIODS == {"7d", "30d", "month", "last_month"}

\* lines 190-199: the buttons of the period selector rendered as active
ActivePeriods(selectedPeriod) == {p \in PERIODS : selectedPeriod = Some(p)}

\* values of the type MetricData (lines 40-45) formatTrend is called with
TrendPercentages ==
    {Null, Some(Fraction(1, 0)), Some(Fraction(0 - 1, 0)), Some(Fraction(0, 0))}
        \cup { Some(Fraction(n, d)) : n \in {0 - 250, 0 - 5, 0, 5, 1234}, d \in {1, 3, 100} }

TrendMetrics ==
    { [current |-> MaxCount, previous |-> p, delta |-> d, deltaPercentage |-> dp] :
        p \in {Null} \cup {Some(n) : n \in 0..MaxCount},
        d \in (0 - MaxCount)..MaxCount,
        dp \in TrendPercentages }

TrendInit ==
    /\ tmetric = Null
    /\ trend = Null

\* lines 140-155: a metric card asks for its trend
FormatTrendCall ==
    /\ tmetric = Null
    /\ \E metric \in TrendMetrics :
          /\ tmetric' = Some(metric)
          /\ trend' = Some(FormatTrend(metric, ComparisonLabel))
    /\ UNCHANGED <<mobileMenuOpen, asPath, view, effectDue, events, uvars, dvars>>

-----------------------------------------------------------------------------
(* Specifications *)

Init == UploadInit /\ DashInit /\ ShellInit /\ TrendInit

\* the upload route
Next == UploadNext

Spec == Init /\ [][Next]_vars

\* the dashboard page over every current date and period selector
PeriodNext ==
    \/ GsspRequest(Dates(NowYears), PeriodQueries)
    \/ GsspRedirect
    \/ GsspIssueQueries("one")
    \/ QueriesComplete
    \/ GsspMetrics
    \/ MessagesError
    \/ MessagesOk({<<>>})

PeriodSpec == Init /\ [][PeriodNext]_vars

\* the dashboard page over the answers of the count queries
CountsNext ==
    \/ GsspRequest({SomeDay}, {AbsentQuery, StringQuery("last_month")})
    \/ GsspRedirect
    \/ GsspIssueQueries("counts")
    \/ QueriesComplete
    \/ GsspMetrics
    \/ MessagesError
    \/ MessagesOk(MessageLists)

CountsSpec == Init /\ [][CountsNext]_vars

\* the dashboard page with the queries completing in every order
ParallelNext ==
    \/ GsspRequest({SomeDay}, {StringQuery("7d")})
    \/ GsspRedirect
    \/ GsspIssueQueries("few")
    \/ \E i \in Positions : QueryCompletes(i)
    \/ GsspMetrics
    \/ MessagesError
    \/ MessagesOk(MessageLists)

ParallelSpec == Init /\ [][ParallelNext]_vars

\* days on which the page is requested for the charts
ChartDays ==
    { SomeDay,
      [y |-> CalendarStart.y + 1, m |-> 3, d |-> 31],
      [y |-> CalendarStart.y + 1, m |-> 1, d |-> 1] }

\* the dashboard page over the rows the chart queries return
ChartsNext ==
    \/ GsspRequest(ChartDays, {StringQuery(v) : v \in {"7d", "30d", "month", "last_month"}})
    \/ GsspRedirect
    \/ GsspIssueQueries("charts")
    \/ QueriesComplete
    \/ GsspMetrics
    \/ MessagesError
    \/ MessagesOk({<<>>})

ChartsSpec == Init /\ [][ChartsNext]_vars

\* the upload route with two requests in flight
ConcurrentInit == TwoUploadsInit /\ DashInit /\ ShellInit /\ TrendInit

ConcurrentSpec == ConcurrentInit /\ [][ConcurrentNext]_vars

\* the mobile menu under every sequence of up to MaxEvents events
ShellNext ==
    \/ ToggleClick
    \/ CloseClick
    \/ OverlayClick
    \/ RouteChange
    \/ RunEffect

ShellSpec == Init /\ [][ShellNext]_vars

\* formatTrend over the values of MetricData
TrendNext == FormatTrendCall

TrendSpec == Init /\ [][TrendNext]_vars

-----------------------------------------------------------------------------
(* Claims about the upload route *)

UploadsOf(r) == {i \in DOMAIN ops[r] : ops[r][i].op = "upload"}

IsErrorResponse(resp, status) ==
    /\ resp.status = status
    /\ "error" \in DOMAIN resp.body

\* C1: a storage upload is attempted only if the admin assertion succeeded and
\* the method is POST; when the assertion throws the handler returns without
\* any storage operation (and without writing a response of its own); an
\* admin's non-POST request is answered 405 with header Allow: POST and no
\* storage operation.
C1_AdminPostOnly ==
    \A r \in AllReqs :
        /\ ops[r] # <<>> => env[r].auth = "ok" /\ req[r].method = "POST"
        /\ env[r].auth = "rejected" =>
              ops[r] = <<>> /\ upc[r] = "done" /\ sent[r] \in AuthReplies
        /\ (env[r].auth = "ok" /\ req[r].method # "POST") =>
              /\ upc[r] = "done"
              /\ Len(sent[r]) = 1
              /\ IsErrorResponse(sent[r][1], 405)
              /\ <<"Allow", "POST">> \in hdrs[r]
              /\ ops[r] = <<>>
              /\ bucket = {}

C1_Witness ==
    \E r \in AllReqs :
        /\ env[r].auth = "ok"
        /\ req[r].method = "GET"
        /\ req[r].body.kind = "object"
        /\ Truthy(req[r].body.file) /\ Truthy(req[r].body.fileName)
        /\ upc[r] = "done"
        /\ sent[r][1].status = 405

\* C2: every request that passed the admin assertion ends with exactly one
\* response, 200 with body {url, path} or a 4xx/5xx body with an 'error'
\* field, on every path (a throwing storage client included); nothing is
\* written before the handler ends, and a handler that has not ended can
\* always take a step.
C2_ExactlyOneResponse ==
    \A r \in AllReqs :
        /\ (env[r].auth = "ok" /\ upc[r] = "done") =>
              /\ Len(sent[r]) = 1
              /\ \/ /\ sent[r][1].status = 200
                    /\ DOMAIN sent[r][1].body = {"url", "path"}
                 \/ /\ sent[r][1].status \in 400..599
                    /\ "error" \in DOMAIN sent[r][1].body
        /\ upc[r] \in {"auth", "upload"} => sent[r] = <<>> /\ ENABLED UploadNext

C2_Witness ==
    \E r \in AllReqs :
        /\ env[r].auth = "ok"
        /\ env[r].upload = "threw"
        /\ upc[r] = "done"
        /\ Len(sent[r]) = 1
        /\ sent[r][1].status = 500

C3_Lacks(v) == v.kind = "absent" \/ (v.kind = "string" /\ v.prefix = "" /\ v.chars = <<>>)

C4_Table ==
    { << <<"j", "p", "g">>, "image/jpeg" >>, << <<"j", "p", "e", "g">>, "image/jpeg" >>,
      << <<"p", "n", "g">>, "image/png" >>, << <<"g", "i", "f">>, "image/gif" >>,
      << <<"w", "e", "b", "p">>, "image/webp" >>, << <<"s", "v", "g">>, "image/svg+xml" >> }

\* the last '.'-separated segment of a name, lower-cased
C4_Segment(name) ==
    LET dots == {i \in DOMAIN name : name[i] = "."}
        from == IF dots = {} THEN 1
                ELSE 1 + CHOOSE i \in dots : \A j \in dots : j <= i
    IN  ToLowerCase(SubSeq(name, from, Len(name)))

\* C4: the content type of an upload is the table's entry for the file name's
\* extension and image/jpeg for every extension that is not in the table.
C4_MimeDefaultsToJpeg ==
    \A r \in AllReqs : \A i \in UploadsOf(r) :
        LET ext == C4_Segment(req[r].body.fileName.chars)
        IN  /\ \A p \in C4_Table : p[1] = ext => ops[r][i].contentType = p[2]
            /\ (\A p \in C4_Table : p[1] # ext) => ops[r][i].contentType = "image/jpeg"

C5_Allowed ==
    Range(LowerLetters) \cup Range(UpperLetters) \cup Range(DigitChars) \cup {".", "-"}

\* C5: the key written to storage is 'messages/' + timestamp + '-' + s, where
\* s has the length of fileName, keeps every character of fileName that is in
\* [a-zA-Z0-9.-] at its position and has '_' everywhere else; the key holds
\* no '/' but the one after 'messages'.
C5_SanitizedKey ==
    \A r \in AllReqs : \A i \in UploadsOf(r) :
        LET name == req[r].body.fileName.chars
            key == ops[r][i].path
            head == MessagesPrefix \o ToDigits(job[r][1].timestamp) \o <<"-">>
            s == SubSeq(key, Len(head) + 1, Len(key))
        IN  /\ Len(key) = Len(head) + Len(name)
            /\ SubSeq(key, 1, Len(head)) = head
            /\ \A k \in DOMAIN name :
                  s[k] = IF name[k] \in C5_Allowed THEN name[k] ELSE "_"
            /\ {k \in DOMAIN key : key[k] = "/"} = {Len(MessagesPrefix)}

C5_Witness ==
    \E r \in AllReqs : \E i \in UploadsOf(r) :
        /\ \E k \in DOMAIN req[r].body.fileName.chars :
              req[r].body.fileName.chars[k] = "/"
        /\ \E k \in DOMAIN req[r].body.fileName.chars :
              req[r].body.fileName.chars[k] = "\\"
        /\ upc[r] = "done"
        /\ env[r].upload = "ok"

-----------------------------------------------------------------------------
(* Claims about the dashboard page *)

SessionProps == outcome # Null /\ outcome[1].kind = "props"

\* the four delta metrics of a dashboardMetrics object
DeltaMetrics(dm) == {dm.totalUsers, dm.weeklySignups, dm.analyses, dm.waitlist}

C6_DeltaOk(m) ==
    /\ m.deltaPercentage = Null <=> m.previous[1] = 0
    /\ m.deltaPercentage # Null =>
          /\ m.deltaPercentage[1].den # 0
          /\ m.deltaPercentage[1].num * m.previous[1]
                = (m.current - m.previous[1]) * 100 * m.deltaPercentage[1].den

\* C6: for each of the four metrics, deltaPercentage is null exactly when the
\* metric's previous value is 0 and otherwise equals
\* (current - previous) / previous * 100; nothing is ever divided by zero.
C6_NullPercentIffPreviousZero ==
    /\ metrics # Null => \A m \in DeltaMetrics(metrics[1]) : C6_DeltaOk(m)
    /\ SessionProps => \A m \in DeltaMetrics(outcome[1].dashboardMetrics[1]) : C6_DeltaOk(m)

C6_Witness ==
    /\ SessionProps
    /\ LET dm == outcome[1].dashboardMetrics[1]
       IN  /\ dm.weeklySignups.previous[1] = 0
           /\ dm.weeklySignups.current > 0
           /\ dm.weeklySignups.deltaPercentage = Null
           /\ dm.analyses.deltaPercentage # Null
           /\ dm.analyses.deltaPercentage[1].num < 0
           /\ dm.totalUsers.previous[1] > 0

\* the ten counts, by the position of the query each comes from
C7_Counts(dm) ==
    << dm.totalUsers.current, dm.weeklySignups.current, dm.weeklySignups.previous[1],
       dm.analyses.current, dm.analyses.previous[1], dm.consent.marketing.total,
       dm.consent.marketing.optedIn, dm.consent.improvement.optedIn,
       dm.waitlist.current, dm.waitlist.previous[1] >>

C7_Expected(k) ==
    IF backend[k].error \/ backend[k].count = Null THEN 0 ELSE backend[k].count[1]

\* C7: each of the ten counts is 0 when its own query's response carries an
\* error or a null count and is that response's count otherwise, whatever
\* the other queries answer; the run goes on and returns props for every
\* subset of failing queries.
C7_CountsDefaultToZero ==
    /\ metrics # Null =>
          /\ \A k \in CountPositions : C7_Counts(metrics[1])[k] = C7_Expected(k)
          /\ metrics[1].consent.improvement.total = C7_Expected(6)
    /\ gpc = "queries" => AllSettled \/ ENABLED QueriesComplete
    /\ gpc = "messages" => ENABLED MessagesError /\ ENABLED MessagesOk(MessageLists)
    /\ (gpc = "done" /\ ranges # Null) =>
          /\ SessionProps
          /\ outcome[1].dashboardMetrics = metrics
          /\ \A k \in CountPositions :
                C7_Counts(outcome[1].dashboardMetrics[1])[k] = C7_Expected(k)

C7_Witness ==
    /\ SessionProps
    /\ backend[3].error
    /\ ~backend[2].error /\ backend[2].count # Null
    /\ backend[10] = NullCountReply
    /\ \E k \in CountPositions : ~backend[k].error /\ backend[k].count # Null
    /\ outcome[1].dashboardMetrics[1].weeklySignups.previous[1] = 0
    /\ outcome[1].dashboardMetrics[1].weeklySignups.current > 0

C8_Length(from, to) == DayNum(to) - DayNum(from) + 1

C8_KnownPeriods == {"7d", "30d", "month", "last_month"}

\* the windows the comparison queries are issued with
C8_IssuedWithRanges(rg) ==
    /\ \A k \in {2, 4, 9} :
          issued[k].gte = Some(rg.startDate) /\ issued[k].lt = Some(rg.endDate)
    /\ \A k \in {3, 5, 10} :
          /\ issued[k].gte = Some(rg.previousStartDate)
          /\ issued[k].lt = Some(rg.previousEndDate)

\* C8 as claimed: for every period selector value and every current date the
\* previous period has the length in days of the selected period and ends
\* the day before the selected period starts.
C8_EqualLengthAdjacent ==
    (ranges # Null /\ ranges[1].period \in C8_KnownPeriods) =>
        LET rg == ranges[1].dates
        IN  /\ C8_Length(rg.previousStartDate, rg.previousEndDate)
                  = C8_Length(rg.startDate, rg.endDate)
            /\ DayNum(rg.previousEndDate) + 1 = DayNum(rg.startDate)

\* C8 as amended: the previous period always ends the day before the selected
\* period starts; for 7d and 30d it has the selected period's length; for
\* month and last_month it is the whole calendar month before the month the
\* selected period starts in, whatever the selected period's length.
C8_PreviousWindow ==
    (ranges # Null /\ ranges[1].period \in C8_KnownPeriods) =>
        LET rg == ranges[1].dates
        IN  /\ C8_IssuedWithRanges(rg)
            /\ DayNum(rg.previousStartDate) <= DayNum(rg.previousEndDate)
            /\ DayNum(rg.previousEndDate) + 1 = DayNum(rg.startDate)
            /\ ranges[1].period \in {"7d", "30d"} =>
                  C8_Length(rg.previousStartDate, rg.previousEndDate)
                      = C8_Length(rg.startDate, rg.endDate)
            /\ ranges[1].period \in {"month", "last_month"} =>
                  /\ rg.startDate.d = 1
                  /\ rg.previousStartDate.d = 1
                  /\ rg.previousStartDate.m = rg.previousEndDate.m
                  /\ rg.previousStartDate.y = rg.previousEndDate.y

C8_Witness ==
    /\ SessionProps
    /\ ranges[1].period = "last_month"
    /\ C8_Length(ranges[1].dates.startDate, ranges[1].dates.endDate) = 29
    /\ C8_Length(ranges[1].dates.previousStartDate, ranges[1].dates.previousEndDate) = 31

C9_Selected(q) ==
    IF q.kind = "string" /\ q.value \in {"30d", "month", "last_month"} THEN q.value
    ELSE "7d"

\* C9: '7d' selects the 7 calendar days ending today, '30d' the 30 calendar
\* days ending today, 'month' the first day of the current month through
\* today, 'last_month' the whole previous calendar month; an absent,
\* non-string or unrecognized value selects what '7d' selects.
C9_PeriodWindows ==
    ranges # Null =>
        LET rg == ranges[1].dates
            now == gin.now
            firstOfMonth == [y |-> now.y, m |-> now.m, d |-> 1]
            sel == C9_Selected(gin.query)
        IN  /\ issued[2].gte = Some(rg.startDate) /\ issued[2].lt = Some(rg.endDate)
            /\ sel = "7d" =>
                  rg.endDate = now /\ DayNum(rg.startDate) = DayNum(now) - 6
            /\ sel = "30d" =>
                  rg.endDate = now /\ DayNum(rg.startDate) = DayNum(now) - 29
            /\ sel = "month" =>
                  rg.endDate = now /\ rg.startDate = firstOfMonth
            /\ sel = "last_month" =>
                  /\ DayNum(rg.endDate) + 1 = DayNum(firstOfMonth)
                  /\ rg.startDate = [y |-> rg.endDate.y, m |-> rg.endDate.m, d |-> 1]

C9_Witness ==
    /\ SessionProps
    /\ gin.query.kind = "array"
    /\ gin.now = [y |-> CalendarStart.y + 1, m |-> 3, d |-> 2]
    /\ ranges[1].dates.startDate = [y |-> CalendarStart.y + 1, m |-> 2, d |-> 25]
    /\ ranges[1].dates.endDate = gin.now

\* C10: the thirteen queries are issued together; no metric is computed and
\* nothing is returned before all of them have completed; the array the
\* metrics are computed from holds each query's own response at the query's
\* position, so the metrics are those of the responses whatever the order in
\* which the queries complete.
C10_FanInOrderFree ==
    /\ gpc = "queries" =>
          /\ Len(issued) = QueryCount
          /\ metrics = Null /\ outcome = Null
    /\ issued # <<>> =>
          \A k \in Positions :
              /\ k \in pending <=> results[k] = Null
              /\ results[k] # Null => results[k] = Some(backend[k])
    /\ metrics # Null =>
          /\ pending = {}
          /\ metrics[1] = DashboardMetrics(backend, ranges[1].dates)
          /\ metrics[1].totalUsers.current = C7_Expected(1)
          /\ metrics[1].waitlist.previous[1] = C7_Expected(10)
    /\ SessionProps => pending = {} /\ outcome[1].dashboardMetrics = metrics

C10_Witness ==
    /\ SessionProps
    /\ reordered
    /\ backend[2].error
    /\ outcome[1].dashboardMetrics[1].totalUsers.current = 1

\* the rows a chart query returned
C11_Rows(k) == IF backend[k].data = Null THEN <<>> ELSE backend[k].data[1]

RECURSIVE C11_Sum(_, _)
C11_Sum(series, k) == IF k = 0 THEN 0 ELSE series[k].value + C11_Sum(series, k - 1)

C11_SeriesOk(series, k, rg) ==
    LET first == DayNum(rg.startDate)
        rows == C11_Rows(k)
        day == [e \in 1..Len(series) |-> DateOf(first + e - 1)]
    IN  /\ Len(series) = DayNum(rg.endDate) - first + 1
        /\ Len(series) >= 1
        /\ \A e \in 1..Len(series) :
              /\ series[e].name = FormatDay(day[e])
              /\ series[e].value = Cardinality({j \in DOMAIN rows : rows[j] = day[e]})
        /\ \A j \in DOMAIN rows :
              Cardinality({e \in 1..Len(series) : rows[j] = day[e]}) = 1
        /\ C11_Sum(series, Len(series)) = Len(rows)

\* C11: each of the three chart series has exactly one entry per calendar day
\* from the period's start day through its end day, in ascending date order;
\* an entry's value is the number of rows returned by the chart's query that
\* were created on its day; every returned row is counted in exactly one
\* entry, so the values sum to the number of rows returned (none for an
\* errored query).
C11_DailyBuckets ==
    SessionProps =>
        LET dm == outcome[1].dashboardMetrics[1]
            rg == ranges[1].dates
        IN  /\ C11_SeriesOk(dm.userGrowthData, 11, rg)
            /\ C11_SeriesOk(dm.analysisActivityData, 12, rg)
            /\ C11_SeriesOk(dm.waitlistGrowthData, 13, rg)

C11_Witness ==
    /\ SessionProps
    /\ ranges[1].period = "month"
    /\ gin.now = SomeDay
    /\ backend[11].data = Some(<<SomeDay, [SomeDay EXCEPT !.d = 8], SomeDay>>)
    /\ backend[12].error
    /\ outcome[1].dashboardMetrics[1].userGrowthData[15].value = 2
    /\ outcome[1].dashboardMetrics[1].userGrowthData[8].value = 1
    /\ outcome[1].dashboardMetrics[1].waitlistGrowthData[1].value = 1

\* the two consent metrics of a dashboardMetrics object
ConsentMetrics(dm) == {dm.consent.marketing, dm.consent.improvement}

C12_RateOk(c) ==
    /\ c.rate.den # 0
    /\ c.total > 0 => c.rate.num * c.total = c.optedIn * 100 * c.rate.den
    /\ c.total = 0 => c.rate.num = 0

\* C12: the opt-in rate of each consent flag is optedIn / total * 100 when
\* the total consent count is greater than 0 and 0 when the total is 0, where
\* optedIn is the count of consent records with the flag set to true and
\* total the count of all consent records.
C12_OptInRate ==
    SessionProps =>
        LET dm == outcome[1].dashboardMetrics[1]
        IN  /\ \A c \in ConsentMetrics(dm) : C12_RateOk(c) /\ c.total = C7_Expected(6)
            /\ dm.consent.marketing.optedIn = C7_Expected(7)
            /\ dm.consent.improvement.optedIn = C7_Expected(8)
            /\ issued[6].table = "consent" /\ issued[6].filter = "none"
            /\ issued[7].table = "consent" /\ issued[7].filter = "marketing"
            /\ issued[8].table = "consent" /\ issued[8].filter = "improvement"

C12_Witness ==
    /\ SessionProps
    /\ LET dm == outcome[1].dashboardMetrics[1]
       IN  /\ dm.consent.marketing.total = 3
           /\ dm.consent.marketing.optedIn = 1
           /\ dm.consent.improvement.optedIn = 2
           /\ dm.consent.improvement.rate = Fraction(200, 3)

\* C13: when the in-app-messages query fails, getServerSideProps returns
\* props whose messageStats has total, active, targeted and upcoming 0 and
\* lastMessageTitle and lastMessageUpdatedAt null, with the dashboardMetrics
\* computed before the query, which are the ones returned when the query
\* succeeds.
C13_MessagesFailureDegrades ==
    [][MessagesError =>
          /\ outcome' # Null
          /\ outcome'[1].kind = "props"
          /\ LET stats == outcome'[1].messageStats[1]
             IN  /\ stats.total = 0 /\ stats.active = 0
                 /\ stats.targeted = 0 /\ stats.upcoming = 0
                 /\ stats.lastMessageTitle = Null
                 /\ stats.lastMessageUpdatedAt = Null
          /\ metrics # Null
          /\ outcome'[1].dashboardMetrics = Some(DashboardMetrics(backend, ranges[1].dates))
          /\ \A messages \in MessageLists :
                Props(MessageStats(messages), metrics[1], Some(ranges[1].period)).dashboardMetrics
                    = outcome'[1].dashboardMetrics]_vars

C13_Witness ==
    /\ SessionProps
    /\ outcome[1].selectedPeriod = Null
    /\ outcome[1].messageStats = Some(BaseStats)
    /\ outcome[1].dashboardMetrics[1].totalUsers.current = MaxCount
    /\ outcome[1].dashboardMetrics[1].consent.marketing.total = MaxCount

-----------------------------------------------------------------------------
(* Further claims about the upload route *)

\* C14: a 200 response is sent only after the storage upload completed
\* without error; its path is the key that was passed to the storage upload
\* and its url is the public URL obtained for that key in the bucket
\* 'Images', the bucket of the upload.
C14_SuccessAfterUpload ==
    \A r \in AllReqs :
        \A k \in DOMAIN sent[r] :
            sent[r][k].status = 200 =>
                /\ env[r].upload = "ok"
                /\ Len(ops[r]) = 2
                /\ ops[r][1].op = "upload" /\ ops[r][1].bucket = "Images"
                /\ ops[r][2].op = "getPublicUrl" /\ ops[r][2].bucket = "Images"
                /\ ops[r][2].path = ops[r][1].path
                /\ sent[r][k].body.path = ops[r][1].path
                /\ sent[r][k].body.url = [bucket |-> "Images", path |-> ops[r][1].path]
                /\ \E o \in bucket :
                      o.owner = r /\ o.path = ops[r][1].path /\ o.body = ops[r][1].body

C14_Witness ==
    /\ upc["r1"] = "done"
    /\ Len(sent["r1"]) = 1
    /\ sent["r1"][1].status = 200
    /\ sent["r1"][1].body.path = FilePath(MaxClock, <<"a", "/", "b", ".", "p", "n", "g">>)
    /\ sent["r1"][1].body.path = MessagesPrefix \o ToDigits(MaxClock) \o
                                    <<"-", "a", "_", "b", ".", "p", "n", "g">>

-----------------------------------------------------------------------------
(* Claims about the browser side *)

C15_Closing == {"close", "overlay", "route"}

\* C15: the mobile menu is closed initially; the toggle button flips it; the
\* close button and a click on the overlay close it; a change of the route
\* path closes it, once the effect on the path has run; the overlay is
\* rendered exactly when the menu is open; so after any sequence of these
\* events that ends with a route change, a close click or an overlay click
\* the menu is closed.
C15_MenuMachine ==
    /\ mobileMenuOpen \in BOOLEAN
    /\ events = <<>> => ~mobileMenuOpen
    /\ view.overlay <=> mobileMenuOpen
    /\ view.sidebarOpen <=> mobileMenuOpen
    /\ (events # <<>> /\ ~effectDue) =>
          LET last == events[Len(events)]
          IN  /\ last.kind = "toggle" => mobileMenuOpen = ~last.openBefore
              /\ last.kind \in C15_Closing => ~mobileMenuOpen
              /\ last.kind = "overlay" => last.openBefore

C15_Witness ==
    /\ ~effectDue
    /\ ~mobileMenuOpen
    /\ Len(events) = 4
    /\ events[1].kind = "toggle" /\ ~events[1].openBefore
    /\ events[2].kind = "toggle" /\ events[2].openBefore
    /\ events[3].kind = "toggle" /\ ~events[3].openBefore
    /\ events[4].kind = "route" /\ events[4].openBefore

C16_IsDigit(c) == \E d \in DOMAIN DigitChars : DigitChars[d] = c

C16_Digit(c) == (CHOOSE d \in DOMAIN DigitChars : DigitChars[d] = c) - 1

RECURSIVE C16_Number(_)
C16_Number(digits) ==
    IF digits = <<>> THEN 0
    ELSE 10 * C16_Number(SubSeq(digits, 1, Len(digits) - 1)) + C16_Digit(digits[Len(digits)])

\* the text without its sign prefix
C16_Magnitude(text) == IF C16_IsDigit(text[1]) THEN text ELSE Tail(text)

\* the magnitude is |f| with one fraction digit, followed by " %" and the label
C16_ShowsPercent(body, f) ==
    LET n == Len(body)
        tenths == 10 * C16_Number(SubSeq(body, 1, n - 5)) + C16_Digit(body[n - 3])
    IN  /\ n >= 6
        /\ \A k \in 1..(n - 5) : C16_IsDigit(body[k])
        /\ body[n - 4] = "," /\ C16_IsDigit(body[n - 3])
        /\ SubSeq(body, n - 2, n) = <<" %", " ", ComparisonLabel>>
        /\ 2 * Abs(tenths * Abs(f.den) - 10 * Abs(f.num)) <= Abs(f.den)

\* the magnitude is the natural number n, followed by the label
C16_ShowsNumber(body, n) ==
    /\ Len(body) >= 3
    /\ \A k \in 1..(Len(body) - 2) : C16_IsDigit(body[k])
    /\ C16_Number(SubSeq(body, 1, Len(body) - 2)) = n
    /\ SubSeq(body, Len(body) - 1, Len(body)) = <<" ", ComparisonLabel>>

\* C16: for a metric with a non-null previous, the variant is neutral when
\* delta = 0, positive when delta > 0 and negative when delta < 0; the sign
\* prefix of the text ('', '+', '-') agrees with the variant; the magnitude
\* shown is |deltaPercentage| when deltaPercentage is non-null and finite
\* and |delta| otherwise; with a null previous the result is the neutral
\* dash text.
C16_TrendFormat ==
    tmetric # Null =>
        LET m == tmetric[1]
            t == trend[1]
        IN  IF m.previous = Null
            THEN t = [text |-> <<"--", " ", ComparisonLabel>>, variant |-> "neutral"]
            ELSE /\ t.variant = "neutral" <=> m.delta = 0
                 /\ t.variant = "positive" <=> m.delta > 0
                 /\ t.variant = "negative" <=> m.delta < 0
                 /\ t.variant = "neutral" <=> C16_IsDigit(t.text[1])
                 /\ t.variant = "positive" <=> t.text[1] = "+"
                 /\ t.variant = "negative" <=> t.text[1] = "-"
                 /\ IF m.deltaPercentage # Null /\ m.deltaPercentage[1].den # 0
                    THEN C16_ShowsPercent(C16_Magnitude(t.text), m.deltaPercentage[1])
                    ELSE C16_ShowsNumber(C16_Magnitude(t.text), Abs(m.delta))

C16_Witness ==
    /\ tmetric # Null
    /\ tmetric[1].previous = Some(MaxCount)
    /\ tmetric[1].delta = 0 - 2
    /\ tmetric[1].deltaPercentage = Some(Fraction(0 - 250, 3))
    /\ trend[1].variant = "negative"
    /\ trend[1].text = <<"-", "8", "3", ",", "3", " %", " ", ComparisonLabel>>

\* C17: in every authenticated outcome of getServerSideProps, whether or not
\* a backend query failed, the returned props carry selectedPeriod equal to
\* the period the date windows were computed with, so the period selector
\* shows that period as active whenever it is one of its four values.
C17_SelectedPeriodReturned ==
    (gpc = "done" /\ ranges # Null) =>
        /\ SessionProps
        /\ outcome[1].selectedPeriod = Some(ranges[1].period)
        /\ ranges[1].period \in PERIODS =>
              ActivePeriods(outcome[1].selectedPeriod) = {ranges[1].period}

-----------------------------------------------------------------------------
(* Claims about concurrent uploads *)

C18_Got(r, status) == \E k \in DOMAIN sent[r] : sent[r][k].status = status

C18_SameKey(r1, r2) ==
    /\ r1 # r2
    /\ job[r1] # Null /\ job[r2] # Null
    /\ job[r1][1].filePath = job[r2][1].filePath

C18_Settled ==
    /\ \A r \in AllReqs : \A k \in DOMAIN ops[r] : ~ops[r][k].upsert
    /\ \A o1, o2 \in bucket : o1.path = o2.path => o1 = o2
    /\ \A o \in bucket :
          /\ env[o.owner].upload = "ok"
          /\ o.path = ops[o.owner][1].path
          /\ o.body = ops[o.owner][1].body
    /\ \A r1, r2 \in AllReqs :
          (C18_SameKey(r1, r2) /\ upc[r1] = "done" /\ upc[r2] = "done") =>
              /\ ~(C18_Got(r1, 200) /\ C18_Got(r2, 200))
              /\ C18_Got(r1, 200) =>
                    /\ sent[r2] # <<>>
                    /\ \A k \in DOMAIN sent[r2] : IsErrorResponse(sent[r2][k], 500)
                    /\ \A o \in bucket : o.path = job[r1][1].filePath => o.owner = r1

\* C18: every upload is made with upsert disabled and a stored object is
\* never replaced or removed; when two requests, one after the other or
\* together, produce the same key, at most one of them gets 200, the other
\* then gets a 500 error response, and the object stored under the key is
\* the one written by the request whose upload succeeded.
C18_NoOverwrite == []C18_Settled /\ [][bucket \subseteq bucket']_vars

C18_Witness ==
    /\ upc["r1"] = "done" /\ upc["r2"] = "done"
    /\ C18_SameKey("r1", "r2")
    /\ req["r1"].body.fileName # req["r2"].body.fileName
    /\ req["r1"].body.file # req["r2"].body.file
    /\ C18_Got("r2", 200)
    /\ sent["r1"] = <<ErrorResponse(500, "The resource already exists")>>
    /\ Cardinality(bucket) = 1
    /\ \A o \in bucket : o.owner = "r2" /\ o.body = StripDataUri(req["r2"].body.file)

-----------------------------------------------------------------------------
(* Claims about the consent metrics *)

\* C19: in every dashboardMetrics returned by getServerSideProps, for both
\* consent flags, optedIn <= total and 0 <= rate <= 100, whatever subset of
\* the three consent queries fails and whatever counts they return.
C19_ConsentBounds ==
    SessionProps =>
        \A c \in ConsentMetrics(outcome[1].dashboardMetrics[1]) :
            /\ c.optedIn <= c.total
            /\ c.rate.den > 0
            /\ 0 <= c.rate.num
            /\ c.rate.num <= 100 * c.rate.den

=============================================================================
